---- MODULE Spec2Model ----
(***************************************************************************)
(* Growth/aging engine of the Earh-Moon repository:                        *)
(*   - src/graph (BaseGraph, EdgeOperations, KomplettGraph,                *)
(*     ThicknessCalculator): the "graph package engine";                   *)
(*   - src/CompleteGraph.py: the "single-file engine".                     *)
(* A networkx Graph is modelled by its node set and its set of undirected  *)
(* edges <<u, v>> with u < v.  The edge heap is the Python list that heapq *)
(* maintains, with its array layout.                                       *)
(***************************************************************************)
EXTENDS Integers, Sequences, FiniteSets, TLC

(***************************************************************************)
(* Bounds of the model.                                                    *)
(***************************************************************************)
\* largest initial clique of the small configurations (k of KomplettGraph(k))
SmallK == 3
\* number of add_edge / add_edge_step calls in one run, small configurations
MaxSteps == 2
\* number of add_edge / add_edge_step calls in one run, large configurations
BigSteps == 1
\* number of lowest-numbered vertices / first edges a random draw may pick
\* in the large configurations (the small ones draw from everything)
BigWindow == 3
\* the large configurations start from K_MainK .. K_(MainK + BigKSpan)
BigKSpan == 2

(***************************************************************************)
(* Program constants.                                                      *)
(***************************************************************************)
\* mutant of ArbCeiling: the ceiling is one too high
ArbCeilingTooHigh == 9 + 1
\* the arboricity ceiling of add_edge / add_edge_step
ArbCeiling == 9
\* the clique size of the shipped run, KomplettGraph(19)
MainK == 19

None == "None"
\* an attribute or local that has not been assigned, and one that has
Absent == [set |-> FALSE]
Assigned(value) == [set |-> TRUE, value |-> value]
\* the message of a successful call: None
NoMessage == [kind |-> "None"]
\* the value that stands for None where a count is expected
Unset == 0 - 1

(***************************************************************************)
(* Graph (networkx.Graph as used by the engines).                          *)
(***************************************************************************)
Norm(u, v) == IF u < v THEN <<u, v>> ELSE <<v, u>>

\* nx.complete_graph(k): nodes 0..k-1, every pair joined
complete_graph(k) ==
    [nodes |-> 0 .. (k - 1),
     edges |-> {<<u, v>> \in (0 .. (k - 1)) \X (0 .. (k - 1)) : u < v}]

\* mutant of number_of_nodes: one too many
number_of_nodes_one_more(G) == Cardinality(G.nodes) + 1
number_of_nodes(G) == Cardinality(G.nodes)
number_of_edges(G) == Cardinality(G.edges)
\* mutant of has_edge: every edge is reported present
has_edge_always(G, u, v) == TRUE
has_edge(G, u, v) == Norm(u, v) \in G.edges
add_node(G, n) == [G EXCEPT !.nodes = @ \cup {n}]
\* G.add_edge(u, v): adds missing endpoints, a present edge is left alone
graph_add_edge(G, u, v) ==
    [nodes |-> G.nodes \cup {u, v}, edges |-> G.edges \cup {Norm(u, v)}]
\* G.remove_edge(u, v) of a present edge (networkx raises on an absent one)
graph_remove_edge(G, u, v) == [G EXCEPT !.edges = @ \ {Norm(u, v)}]

Neighbors(G, v) == {w \in G.nodes : w # v /\ Norm(v, w) \in G.edges}
degree(G, v) == Cardinality(Neighbors(G, v))

\* lexicographic order on edges, the order of Python tuples
EdgeLess(e, f) == e[1] < f[1] \/ (e[1] = f[1] /\ e[2] < f[2])

\* the elements of a set of numbers in increasing order
SortedSeq(S) ==
    [j \in 1 .. Cardinality(S) |->
        CHOOSE w \in S : Cardinality({x \in S : x < w}) = j - 1]

RECURSIVE edges_from(_, _)
edges_from(G, u) ==
    IF \A n \in G.nodes : n < u THEN <<>>
    ELSE LET nbrs == SortedSeq({w \in Neighbors(G, u) : w > u})
         IN [j \in 1 .. Len(nbrs) |-> <<u, nbrs[j]>>] \o edges_from(G, u + 1)

\* list(G.edges()): node by node, each edge reported from its lower endpoint
\* (the adjacency of the graphs built here is in increasing order)
edges_list(G) == edges_from(G, 0)

RECURSIVE SortEdges(_)
\* a small set of edges in lexicographic order
SortEdges(S) ==
    IF S = {} THEN <<>>
    ELSE LET m == CHOOSE e \in S : \A f \in S : f = e \/ EdgeLess(e, f)
         IN <<m>> \o SortEdges(S \ {m})

RECURSIVE FirstEdges(_, _)
\* the first n edges of the set S in lexicographic order, as a set
FirstEdges(S, n) ==
    IF n <= 0 \/ S = {} THEN {}
    ELSE LET m == CHOOSE e \in S : \A f \in S : f = e \/ EdgeLess(e, f)
         IN {m} \cup FirstEdges(S \ {m}, n - 1)

RECURSIVE Repeat(_, _, _)
\* Step applied n times (a loop that has ended is a Step that changes nothing);
\* the first half is computed before the second half starts from its value
Repeat(Step(_), m, n) ==
    IF n <= 0 THEN m
    ELSE IF n = 1 THEN Step(m)
    ELSE CHOOSE r \in {Repeat(Step, half, n - (n \div 2)) :
                           half \in {Repeat(Step, m, n \div 2)}} : TRUE

(***************************************************************************)
(* heapq on a list of (timestamp, (u, v)) tuples.  Positions are 0-based   *)
(* in the code; the sequence index is position + 1.                        *)
(***************************************************************************)
\* Python tuple comparison a < b
LessThan(a, b) == a[1] < b[1] \/ (a[1] = b[1] /\ EdgeLess(a[2], b[2]))

RECURSIVE siftdown_loop(_, _, _, _)
siftdown_loop(heap, startpos, pos, newitem) ==
    IF pos > startpos
    THEN LET parentpos == (pos - 1) \div 2
             parent == heap[parentpos + 1]
         IN IF LessThan(newitem, parent)
            THEN siftdown_loop([heap EXCEPT ![pos + 1] = parent],
                               startpos, parentpos, newitem)
            ELSE [heap EXCEPT ![pos + 1] = newitem]
    ELSE [heap EXCEPT ![pos + 1] = newitem]

\* heapq._siftdown(heap, startpos, pos)
siftdown(heap, startpos, pos) ==
    siftdown_loop(heap, startpos, pos, heap[pos + 1])

RECURSIVE siftup_loop(_, _, _, _)
siftup_loop(heap, startpos, pos, newitem) ==
    LET endpos == Len(heap)
        childpos == 2 * pos + 1
        rightpos == childpos + 1
    IN IF childpos < endpos
       THEN LET c == IF rightpos < endpos
                        /\ ~LessThan(heap[childpos + 1], heap[rightpos + 1])
                     THEN rightpos ELSE childpos
            IN siftup_loop([heap EXCEPT ![pos + 1] = heap[c + 1]],
                           startpos, c, newitem)
       ELSE siftdown([heap EXCEPT ![pos + 1] = newitem], startpos, pos)

\* heapq._siftup(heap, pos)
siftup(heap, pos) == siftup_loop(heap, pos, pos, heap[pos + 1])

\* heapq.heappush(heap, item)
heappush(heap, item) == siftdown(Append(heap, item), 0, Len(heap))

\* list.pop(): the last element of the list and the list without it
list_pop(heap) ==
    [item |-> heap[Len(heap)], heap |-> SubSeq(heap, 1, Len(heap) - 1)]

\* mutant of heappop: the last element of the list is taken, not the root
heappop_takes_last(heap) == list_pop(heap)

\* heapq.heappop(heap): the smallest item and the re-arranged heap
heappop(heap) ==
    LET lastelt == heap[Len(heap)]
        rest == SubSeq(heap, 1, Len(heap) - 1)
    IN IF rest # <<>>
       THEN [item |-> rest[1], heap |-> siftup([rest EXCEPT ![1] = lastelt], 0)]
       ELSE [item |-> lastelt, heap |-> rest]

\* one iteration of the loop of heapify, at index st.i
heapify_step(st) ==
    IF st.i < 0 THEN st ELSE [x |-> siftup(st.x, st.i), i |-> st.i - 1]

\* heapq.heapify(x): for i in reversed(range(n // 2)): _siftup(x, i)
heapify(x) ==
    Repeat(heapify_step, [x |-> x, i |-> (Len(x) \div 2) - 1], Len(x) \div 2).x

Range(s) == {s[i] : i \in 1 .. Len(s)}

(***************************************************************************)
(* BaseGraph metrics (the ConstraintOracle).                               *)
(***************************************************************************)
RECURSIVE largest_first(_, _)
\* sorted(G, key=G.degree, reverse=True): stable, so ties keep node order;
\* deg is the degree of each node, S the nodes still to place
largest_first(deg, S) ==
    IF S = {} THEN <<>>
    ELSE LET v == CHOOSE x \in S : \A y \in S :
                      \/ deg[x] > deg[y]
                      \/ (deg[x] = deg[y] /\ x <= y)
         IN <<v>> \o largest_first(deg, S \ {v})

RECURSIVE greedy_loop(_, _, _, _)
\* the loop of nx.coloring.greedy_color: colors[u] is the smallest color no
\* colored neighbor of u has (-1 stands for "not in colors")
greedy_loop(nbrs, order, j, colors) ==
    IF j > Len(order) THEN colors
    ELSE LET u == order[j]
             nbr_colors == {colors[v] : v \in nbrs[u]} \ {-1}
             color == CHOOSE c \in 0 .. Cardinality(nbr_colors) :
                          c \notin nbr_colors
                          /\ \A d \in 0 .. (c - 1) : d \in nbr_colors
         IN greedy_loop(nbrs, order, j + 1, [colors EXCEPT ![u] = color])

\* nx.coloring.greedy_color(G, strategy="largest_first")
greedy_color(G) ==
    LET nbrs == [v \in G.nodes |-> Neighbors(G, v)]
        deg == [v \in G.nodes |-> Cardinality(nbrs[v])]
    IN greedy_loop(nbrs, largest_first(deg, G.nodes), 1, [v \in G.nodes |-> -1])

SetMax(S) == CHOOSE x \in S : \A y \in S : y <= x

\* BaseGraph.chromatic_number
chromatic_number(G) ==
    IF G.nodes = {} THEN 1
    ELSE LET coloring == greedy_color(G)
         IN SetMax({coloring[v] : v \in G.nodes}) + 1

RECURSIVE node_component(_, _)
\* the connected component of G that contains the node set S
node_component(G, S) ==
    LET T == S \cup {w \in G.nodes : \E u \in S : Norm(u, w) \in G.edges /\ u # w}
    IN IF T = S THEN S ELSE node_component(G, T)

\* nx.connected_components(G)
connected_components(G) == {node_component(G, {v}) : v \in G.nodes}

\* mutant of Densities: the edges are divided by the number of vertices
DensitiesPerVertex(G) ==
    {<<Cardinality({e \in G.edges : e[1] \in c /\ e[2] \in c}),
       Cardinality(c)>> :
        c \in {d \in connected_components(G) : Cardinality(d) > 1}}

\* the densities num_edges / (num_vertices - 1) of the components with more
\* than one vertex, as fractions <<numerator, denominator>>
Densities(G) ==
    {<<Cardinality({e \in G.edges : e[1] \in c /\ e[2] \in c}),
       Cardinality(c) - 1>> :
        c \in {d \in connected_components(G) : Cardinality(d) > 1}}

\* BaseGraph.arboricity: int(max density), 0.0 when no component counts
arboricity(G) ==
    LET D == Densities(G)
    IN IF D = {} THEN 0
       ELSE LET m == CHOOSE x \in D : \A y \in D : y[1] * x[2] <= x[1] * y[2]
            IN m[1] \div m[2]

\* is_planar of BaseGraph.check_planarity.  nx.check_planarity is a library
\* routine; its verdict is fixed here where the size of the graph decides it
\* (fewer than 5 vertices or fewer than 9 edges: planar; 5 vertices: planar
\* unless complete; more than 3n-6 edges: not planar) and is either value
\* otherwise
check_planarity(G) ==
    IF number_of_nodes(G) < 5 \/ number_of_edges(G) < 9 THEN {TRUE}
    ELSE IF number_of_edges(G) > 3 * number_of_nodes(G) - 6 THEN {FALSE}
    ELSE IF number_of_nodes(G) = 5 THEN {TRUE}
    ELSE BOOLEAN

\* the dict store_graph_data appends
StepRecord(step, g, chrom_num, is_planar, arb_num, thickness) ==
    [step |-> step, chromatic_number |-> chrom_num, is_planar |-> is_planar,
     nodes |-> number_of_nodes(g), edges |-> number_of_edges(g),
     arboricity |-> arb_num, thickness |-> thickness]

\* store_graph_data(graph_data, step, G, chrom_num, is_planar, arb_num, thickness)
store_graph_data(data, step, g, chrom_num, is_planar, arb_num, thickness) ==
    Append(data, StepRecord(step, g, chrom_num, is_planar, arb_num, thickness))

(***************************************************************************)
(* State.                                                                  *)
(***************************************************************************)
VARIABLES
    variant,          \* "package" (src/graph) or "single" (src/CompleteGraph.py)
    k0,               \* the k of KomplettGraph(k)
    removal_policy,   \* the removal_policy of the run: "old" or "random"
    G,                \* self.G
    edge_heap,        \* the store: edge_ops.edge_heap / self.edge_heap
    current_time,     \* the counter: edge_ops.current_time / self.current_time
    kg_edge_heap,     \* package: attribute edge_heap of the KomplettGraph itself
    kg_current_time,  \* package: attribute current_time of the KomplettGraph
    chromatic_num_original,
    i,                \* the step index handed to the next call
    original,         \* original_graph, original_heap, original_time of the last call
    result,           \* what the last add_edge / add_edge_step returned
    last,             \* what the last call did (name, arguments, removals, pops)
    born,             \* for each edge of G, the timestamp of the push that inserted it
    pushlog,          \* the timestamps stored by the pushes, in call order
    err,              \* an exception left the last call
    external,         \* random_edge_removal has removed an edge of G
    adj,              \* ThicknessCalculator input: adjacency lists
    dfs,              \* ThicknessCalculator output
    pc,               \* where the driver is: "loop", "done", "crashed"; "idle": no driver
    graph_data,       \* the StepRecords appended so far
    edge_combinations,\* generator: the (add, remove) combinations not yet popped
    previous_edges,   \* generator: previous_edges
    saved,            \* the calls of save_summary so far
    committed,        \* graph, store and counter after the last committed step
    prior,            \* the attempt before the last one
    num_of_edges,     \* src/CompleteGraph.py: the module-level num_of_edges
    interrupt         \* where KeyboardInterrupt was raised; "none": not raised

vars == <<variant, k0, removal_policy, G, edge_heap, current_time, kg_edge_heap, kg_current_time,
          chromatic_num_original, i, original, result, last, born, pushlog,
          err, external, adj, dfs, pc, graph_data, edge_combinations,
          previous_edges, saved, committed, prior, num_of_edges, interrupt>>

\* the variables of the drivers (generator, create_k_plus_edges)
driver_vars == <<pc, graph_data, edge_combinations, previous_edges, saved,
                 committed, prior, num_of_edges, interrupt>>

(***************************************************************************)
(* EdgeOperations (and the same methods of src/CompleteGraph.py).  The     *)
(* methods work on a record m of the objects they touch:                   *)
(*   G, heap, time, and the observations born, pushed, removed, popped,    *)
(*   err.                                                                  *)
(***************************************************************************)
Machine(g, heap, time, b) ==
    [G |-> g, heap |-> heap, time |-> time, born |-> b,
     pushed |-> <<>>, removed |-> <<>>, popped |-> <<>>, err |-> FALSE]

Bear(b, e, t) ==
    IF e \in DOMAIN b THEN b
    ELSE [x \in DOMAIN b \cup {e} |-> IF x = e THEN t ELSE b[x]]

Bury(b, e) == [x \in DOMAIN b \ {e} |-> b[x]]

\* mutant of push_edge: current_time is not advanced
push_edge_without_tick(m, existing_node, new_node) ==
    [m EXCEPT !.G = graph_add_edge(m.G, existing_node, new_node),
              !.heap = heappush(m.heap, <<m.time, <<existing_node, new_node>>>>),
              !.born = Bear(m.born, Norm(existing_node, new_node), m.time),
              !.pushed = Append(m.pushed, <<m.time, <<existing_node, new_node>>>>)]

\* the body of the for loop of add_new_edges, for one existing_node
push_edge(m, existing_node, new_node) ==
    [m EXCEPT !.G = graph_add_edge(m.G, existing_node, new_node),
              !.heap = heappush(m.heap, <<m.time, <<existing_node, new_node>>>>),
              !.time = m.time + 1,
              !.born = Bear(m.born, Norm(existing_node, new_node), m.time),
              !.pushed = Append(m.pushed, <<m.time, <<existing_node, new_node>>>>)]

RECURSIVE add_new_edges_loop(_, _, _, _)
add_new_edges_loop(m, new_node, nodes_to_connect, j) ==
    IF j > Len(nodes_to_connect) THEN m
    ELSE add_new_edges_loop(push_edge(m, nodes_to_connect[j], new_node),
                            new_node, nodes_to_connect, j + 1)

\* add_new_edges once nodes_to_connect is fixed
add_new_edges(m, new_node, nodes_to_connect) ==
    add_new_edges_loop(m, new_node, nodes_to_connect, 1)

\* the sequences without repetition, of length n, over the set S
RECURSIVE Arrangements(_, _)
Arrangements(S, n) ==
    IF n = 0 THEN {<<>>}
    ELSE UNION {{<<x>> \o t : t \in Arrangements(S \ {x}, n - 1)} : x \in S}

\* mutant of NodesToConnect: the new vertex is always attached to every node
NodesToConnectAll(new_node, num_edges, window) ==
    {[n \in 1 .. new_node |-> n - 1]}

\* the values nodes_to_connect can take: all existing nodes in order, or a
\* random.sample of num_edges of them (drawn among the nodes below window;
\* when the sample is larger than the window, the num_edges lowest nodes
\* upwards or the num_edges highest nodes downwards)
NodesToConnect(new_node, num_edges, window) ==
    IF num_edges = Unset \/ num_edges >= new_node
    THEN {[n \in 1 .. new_node |-> n - 1]}
    ELSE IF num_edges > window
    THEN {[n \in 1 .. num_edges |-> n - 1], [n \in 1 .. num_edges |-> new_node - n]}
    ELSE Arrangements({n \in 0 .. (new_node - 1) : n < window}, num_edges)

\* G.remove_edge(u, v) raises NetworkXError when the edge is absent
remove_raises(g, u, v) == Norm(u, v) \notin g.edges

\* the body of the while loop of EdgeOperations.remove_old_edges, after the
\* pop: skip an absent edge, else remove it
handle_popped(m, item) ==
    LET u == item[2][1]
        v == item[2][2]
    IN IF ~has_edge(m.G, u, v)
       THEN [m EXCEPT !.popped = Append(@, item)]
       ELSE IF remove_raises(m.G, u, v)
            THEN [m EXCEPT !.popped = Append(@, item), !.err = TRUE]
            ELSE [m EXCEPT !.popped = Append(@, item),
                           !.G = graph_remove_edge(m.G, u, v),
                           !.born = Bury(m.born, Norm(u, v)),
                           !.removed = Append(@, Norm(u, v))]

\* one iteration of the while loop of EdgeOperations.remove_old_edges
\* (removed_count is Len(m.removed)); nothing once the loop has ended
remove_old_edges_step(m, num_edges_to_remove) ==
    IF m.heap # <<>> /\ Len(m.removed) < num_edges_to_remove /\ ~m.err
    THEN LET p == heappop(m.heap)
         IN handle_popped([m EXCEPT !.heap = p.heap], p.item)
    ELSE m

\* EdgeOperations.remove_old_edges: the loop runs at most once per entry
remove_old_edges(m, num_edges_to_remove) ==
    LET Step(x) == remove_old_edges_step(x, num_edges_to_remove)
    IN Repeat(Step, [m EXCEPT !.removed = <<>>, !.popped = <<>>], Len(m.heap))

\* G.has_edge(u, v) as src/CompleteGraph.py calls it, with u a timestamp and v
\* an edge tuple: no node of G is a tuple, so `v in G._adj[u]` is False (or
\* G._adj[u] is a KeyError, which has_edge turns into False)
has_edge_of_entry(g, u, v) == FALSE

\* one iteration of the while loop of KomplettGraph.remove_old_edges in
\* src/CompleteGraph.py: u, v = self.edge_heap.pop() unpacks the entry
\* (timestamp, edge); nothing once the loop has ended
single_remove_old_edges_step(m, num_edges_to_remove) ==
    IF m.heap # <<>> /\ Len(m.removed) < num_edges_to_remove
    THEN LET p == list_pop(m.heap)
             u == p.item[1]
             v == p.item[2]
             m1 == [m EXCEPT !.heap = p.heap, !.popped = Append(@, p.item)]
         IN IF ~has_edge_of_entry(m.G, u, v)
            THEN m1
            ELSE [m1 EXCEPT !.G = graph_remove_edge(m.G, u, v),
                            !.removed = Append(@, <<u, v>>)]
    ELSE m

\* KomplettGraph.remove_old_edges of src/CompleteGraph.py
single_remove_old_edges(m, num_edges_to_remove) ==
    LET Step(x) == single_remove_old_edges_step(x, num_edges_to_remove)
    IN Repeat(Step, [m EXCEPT !.removed = <<>>, !.popped = <<>>], Len(m.heap))

Min(a, b) == IF a < b THEN a ELSE b

RECURSIVE random_edge_removal_loop(_, _, _, _)
random_edge_removal_loop(m, edges, num_edges_to_remove, j) ==
    IF j > Len(edges) \/ Len(m.removed) >= num_edges_to_remove THEN m
    ELSE LET u == edges[j][1]
             v == edges[j][2]
         IN IF remove_raises(m.G, u, v) THEN [m EXCEPT !.err = TRUE]
            ELSE random_edge_removal_loop(
                     [m EXCEPT !.G = graph_remove_edge(m.G, u, v),
                               !.born = Bury(m.born, Norm(u, v)),
                               !.removed = Append(@, Norm(u, v))],
                     edges, num_edges_to_remove, j + 1)

\* mutant of random_edge_removal: an entry leaves the store with each edge
random_edge_removal_popping(m, edges, num_edges_to_remove) ==
    LET m2 == random_edge_removal_loop([m EXCEPT !.removed = <<>>, !.popped = <<>>],
                                       edges, num_edges_to_remove, 1)
    IN [m2 EXCEPT !.heap = SubSeq(@, Min(Len(m2.removed), Len(@)) + 1, Len(@))]

\* random_edge_removal once the shuffled list is fixed; edges holds the part
\* of the shuffled list the loop reads before it breaks
random_edge_removal(m, edges, num_edges_to_remove) ==
    random_edge_removal_loop([m EXCEPT !.removed = <<>>, !.popped = <<>>],
                             edges, num_edges_to_remove, 1)

\* the subsets of S with n elements
SubsetsOfSize(S, n) == {T \in SUBSET S : Cardinality(T) = n}

\* the values the read part of the shuffled list can take: any
\* min(num_edges_to_remove, number of edges) edges of G.  The removals of the
\* loop commute, so the part is listed in edge order.  A window below the
\* number of edges keeps the draw to the first `window` edges of G and the
\* edges that join the newest vertex to a vertex below `window`.
Shuffled(g, num_edges_to_remove, window) ==
    LET newest == number_of_nodes(g) - 1
        cand == IF window >= Cardinality(g.edges) THEN g.edges
                ELSE FirstEdges(g.edges, window)
                     \cup {e \in g.edges : e[2] = newest /\ e[1] < window}
        n == Min(num_edges_to_remove, Cardinality(cand))
    IN IF n <= 0 THEN {<<>>}
       ELSE {SortEdges(T) : T \in SubsetsOfSize(cand, n)}

(***************************************************************************)
(* KomplettGraph: construction and one step of each engine.                *)
(***************************************************************************)
\* [(0, (u, v)) for u, v in self.G.edges()]
initial_entries(g) ==
    LET all == edges_list(g) IN [n \in 1 .. Len(all) |-> <<0, all[n]>>]

\* no driver runs: the methods are called directly
DriverIdle ==
    /\ pc = "idle"
    /\ graph_data = <<>>
    /\ edge_combinations = {}
    /\ previous_edges = {}
    /\ saved = <<>>
    /\ committed = None
    /\ prior = [op |-> "none"]
    /\ num_of_edges = Unset
    /\ interrupt = "none"

\* KomplettGraph.__init__ of either engine, and the line of the driver
\* (generator / create_k_plus_edges) that fixes chromatic_num_original
InitObject(v, policy, k) ==
    /\ variant = v
    /\ k0 = k
    /\ removal_policy = policy
    /\ G = complete_graph(k)
    /\ edge_heap = IF v \in {"single", "k10"}
                   THEN heapify(initial_entries(complete_graph(k)))
                   ELSE initial_entries(complete_graph(k))
    /\ current_time = Len(initial_entries(complete_graph(k)))
    /\ kg_edge_heap = Absent
    /\ kg_current_time = Absent
    /\ chromatic_num_original = chromatic_number(complete_graph(k))
    /\ original = Absent
    /\ result = [form |-> "none"]
    /\ last = [op |-> "init"]
    /\ born = [e \in complete_graph(k).edges |-> 0]
    /\ pushlog = <<>>
    /\ err = FALSE
    /\ external = FALSE
    /\ adj = None
    /\ dfs = None

\* the engine as constructed, its methods called directly with step 1, 2, ...
InitEngine(v, policy, k) ==
    /\ InitObject(v, policy, k)
    /\ i = 1
    /\ DriverIdle

Snapshot == [graph |-> G, heap |-> edge_heap, time |-> current_time, born |-> born]

\* what a call did, for the properties
Did(op, add, remove, m0, m1, m2) ==
    [op |-> op, add |-> add, remove |-> remove, time0 |-> m0.time,
     mid |-> m1.G, midborn |-> m1.born, midheap |-> m1.heap,
     pushed |-> m1.pushed, removed |-> m2.removed, popped |-> m2.popped,
     after |-> m2.G]

Failure(kind, step) ==
    [form |-> "tuple", success |-> FALSE, message |-> [kind |-> kind, step |-> step]]

\* the revert branch of KomplettGraph.add_edge in src/graph: the heap and the
\* time are assigned to the KomplettGraph, the store edge_ops keeps its own
PackageRevert(m2, kind) ==
    /\ G' = original'.graph
    /\ born' = original'.born
    /\ kg_edge_heap' = Assigned(original'.heap)
    /\ kg_current_time' = Assigned(original'.time)
    /\ edge_heap' = m2.heap
    /\ current_time' = m2.time
    /\ result' = Failure(kind, i)

\* mutant of chromatic_drift: the check is switched off
chromatic_drift_ignored(chrom_num, chrom_original) == FALSE

\* if chrom_num != chromatic_num_original
chromatic_drift(chrom_num, chrom_original) == chrom_num # chrom_original

\* KomplettGraph.add_edge of src/graph/komplett_graph.py, called with step = i
PackageAddEdgeCall(num_edges_to_add, num_edges_to_remove, window) ==
    /\ original' = Snapshot
    /\ LET new_node == number_of_nodes(G)
           m0 == Machine(add_node(G, new_node), edge_heap, current_time, born)
       IN \E nodes_to_connect \in NodesToConnect(new_node, num_edges_to_add, window) :
          \E m1 \in {add_new_edges(m0, new_node, nodes_to_connect)} :
          \E edges \in IF removal_policy = "random"
                       THEN Shuffled(m1.G, num_edges_to_remove, window)
                       ELSE {<<>>} :
          \E m2 \in {IF removal_policy = "old"
                     THEN remove_old_edges(m1, num_edges_to_remove)
                     ELSE random_edge_removal(m1, edges, num_edges_to_remove)} :
          \E chrom_num \in {chromatic_number(m2.G)} :
          \E arb_num \in {arboricity(m2.G)} :
                /\ last' = Did("add_edge", num_edges_to_add,
                               num_edges_to_remove, m0, m1, m2)
                /\ pushlog' = pushlog \o [n \in 1 .. Len(m1.pushed) |-> m1.pushed[n][1]]
                /\ err' = m2.err
                /\ external' = (external \/ (removal_policy = "random"
                                              /\ m2.removed # <<>>))
                /\ IF chromatic_drift(chrom_num, chromatic_num_original)
                   THEN PackageRevert(m2, "chromatic")
                   ELSE IF arb_num > ArbCeiling
                   THEN PackageRevert(m2, "arboricity")
                   ELSE /\ G' = m2.G
                        /\ born' = m2.born
                        /\ edge_heap' = m2.heap
                        /\ current_time' = m2.time
                        /\ UNCHANGED <<kg_edge_heap, kg_current_time>>
                        /\ result' = [form |-> "tuple", success |-> TRUE,
                                      message |-> NoMessage]

\* add_edge called on its own, step after step
PackageAddEdge(num_edges_to_add, num_edges_to_remove, window, budget) ==
    /\ variant = "package"
    /\ i <= budget
    /\ PackageAddEdgeCall(num_edges_to_add, num_edges_to_remove, window)
    /\ i' = i + 1
    /\ UNCHANGED <<variant, k0, removal_policy, chromatic_num_original, adj, dfs>>
    /\ UNCHANGED driver_vars

\* mutant of SingleRevert: the store and the counter are not put back
SingleRevertGraphOnly(m2, kind) ==
    /\ G' = original'.graph
    /\ born' = original'.born
    /\ edge_heap' = m2.heap
    /\ current_time' = m2.time
    /\ result' = Failure(kind, i)

\* mutant of SingleRevert: the counter is put back, the store is not
SingleRevertCounterOnly(m2, kind) ==
    /\ G' = original'.graph
    /\ born' = original'.born
    /\ edge_heap' = m2.heap
    /\ current_time' = original'.time
    /\ result' = Failure(kind, i)

\* the revert branch of KomplettGraph.add_edge_step in src/CompleteGraph.py
SingleRevert(m2, kind) ==
    /\ G' = original'.graph
    /\ born' = original'.born
    /\ edge_heap' = original'.heap
    /\ current_time' = original'.time
    /\ result' = Failure(kind, i)

\* KomplettGraph.add_edge_step of src/CompleteGraph.py, called with step = i;
\* num_edges is both the add count and the remove count
SingleAddEdgeStepCall(num_edges, window) ==
    /\ original' = Snapshot
    /\ LET new_node == number_of_nodes(G)
           m0 == Machine(add_node(G, new_node), edge_heap, current_time, born)
       IN \E nodes_to_connect \in NodesToConnect(new_node, num_edges, window) :
          \E m1 \in {add_new_edges(m0, new_node, nodes_to_connect)} :
          \E edges \in IF removal_policy = "random"
                       THEN Shuffled(m1.G, num_edges, window)
                       ELSE {<<>>} :
          \E m2 \in {IF removal_policy = "old"
                     THEN single_remove_old_edges(m1, num_edges)
                     ELSE random_edge_removal(m1, edges, num_edges)} :
          \E arb_num \in {arboricity(m2.G)} :
                /\ last' = Did("add_edge_step", num_edges,
                               num_edges, m0, m1, m2)
                /\ pushlog' = pushlog \o [n \in 1 .. Len(m1.pushed) |-> m1.pushed[n][1]]
                /\ err' = m2.err
                /\ external' = (external \/ (removal_policy = "random"
                                              /\ m2.removed # <<>>))
                /\ IF arb_num > ArbCeiling
                   THEN SingleRevert(m2, "arboricity")
                   ELSE /\ G' = m2.G
                        /\ born' = m2.born
                        /\ edge_heap' = m2.heap
                        /\ current_time' = m2.time
                        /\ result' = [form |-> "bool", success |-> TRUE,
                                      message |-> NoMessage]

\* add_edge_step called on its own, step after step
SingleAddEdgeStep(num_edges, window, budget) ==
    /\ variant = "single"
    /\ i <= budget
    /\ SingleAddEdgeStepCall(num_edges, window)
    /\ i' = i + 1
    /\ UNCHANGED <<variant, k0, removal_policy, chromatic_num_original,
                   kg_edge_heap, kg_current_time, adj, dfs>>
    /\ UNCHANGED driver_vars

Policies == {"old", "random"}
Variants == {"package", "single"}

(***************************************************************************)
(* Small configurations: K_2 .. K_SmallK, every random draw possible.      *)
(***************************************************************************)
Unwindowed == (SmallK + MaxSteps + 1) * (SmallK + MaxSteps + 1)

\* the add counts the calls are made with (Unset: num_edges is None)
AddCounts == {1, Unset}
\* the remove counts the calls are made with; a random draw of more than one
\* edge is left out, it has too many outcomes to enumerate at every step
RemoveCounts == IF removal_policy = "old" THEN {0, 1, 3} ELSE {0, 1}

InitSmall ==
    \E v \in Variants : \E policy \in Policies : \E k \in 2 .. SmallK :
        InitEngine(v, policy, k)

PackageStep ==
    \E num_edges_to_add \in AddCounts :
    \E num_edges_to_remove \in RemoveCounts :
        PackageAddEdge(num_edges_to_add, num_edges_to_remove, Unwindowed, MaxSteps)

\* add_edge_step(i, chromatic_num_original, removal_policy) with the
\* module-level num_of_edges, or with num_edges given
SingleStep ==
    \E num_edges \in IF removal_policy = "old" THEN {1, 3} ELSE {1} :
        SingleAddEdgeStep(num_edges, Unwindowed, MaxSteps)

Next == PackageStep \/ SingleStep

Spec == InitSmall /\ [][Next]_vars

(***************************************************************************)
(* Runs from the smallest cliques, K_2 .. K_RunK, for the invariants of    *)
(* the Graph and of the store; every random draw possible.                 *)
(***************************************************************************)
\* largest initial clique
RunK == 2
\* number of add_edge / add_edge_step calls in one run
RunSteps == 2

InitRuns ==
    \E v \in Variants : \E policy \in Policies : \E k \in 2 .. RunK :
        InitEngine(v, policy, k)

RunPackageStep ==
    \E num_edges_to_add \in AddCounts :
    \E num_edges_to_remove \in RemoveCounts :
        PackageAddEdge(num_edges_to_add, num_edges_to_remove, Unwindowed, RunSteps)

RunSingleStep ==
    \E num_edges \in IF removal_policy = "old" THEN {1, 3} ELSE {1} :
        SingleAddEdgeStep(num_edges, Unwindowed, RunSteps)

NextRuns == RunPackageStep \/ RunSingleStep

SpecRuns == InitRuns /\ [][NextRuns]_vars

(***************************************************************************)
(* Large configurations: K_MainK .. K_(MainK + BigKSpan), where the        *)
(* arboricity ceiling is within reach; the random draws are windowed.      *)
(***************************************************************************)
InitBig ==
    \E v \in Variants : \E policy \in Policies :
    \E k \in MainK .. (MainK + BigKSpan) :
        InitEngine(v, policy, k)

BigPackageStep ==
    \E num_edges_to_add \in AddCounts :
    \E num_edges_to_remove \in {0, 1} :
        PackageAddEdge(num_edges_to_add, num_edges_to_remove, BigWindow, BigSteps)

\* num_edges = number of nodes attaches the new vertex to every node; under
\* the random policy only num_edges = 1 is drawn
BigSingleStep ==
    \E num_edges \in IF removal_policy = "old" THEN {1, number_of_nodes(G)} ELSE {1} :
        SingleAddEdgeStep(num_edges, BigWindow, BigSteps)

NextBig == BigPackageStep \/ BigSingleStep

SpecBig == InitBig /\ [][NextBig]_vars

(***************************************************************************)
(* The operations of the store on their own: EdgeOperations (and the same  *)
(* methods of src/CompleteGraph.py) called in any order on the engine as   *)
(* constructed, with no snapshot taken and none restored.                  *)
(***************************************************************************)
\* largest initial clique
OpsK == 3
\* number of calls in one run
MaxOps == 3

InitOps == \E v \in Variants : \E k \in 2 .. OpsK : InitEngine(v, None, k)

OpsFrame ==
    /\ i' = i + 1
    /\ UNCHANGED <<variant, k0, removal_policy, chromatic_num_original, original,
                   result, kg_edge_heap, kg_current_time, adj, dfs>>
    /\ UNCHANGED driver_vars

OpsCommit(m) ==
    /\ G' = m.G
    /\ born' = m.born
    /\ edge_heap' = m.heap
    /\ current_time' = m.time
    /\ err' = m.err

\* new_node = self.G.number_of_nodes(); self.G.add_node(new_node);
\* add_new_edges(new_node, num_edges)
OpsAddNewEdges ==
    /\ i <= MaxOps
    /\ \E num_edges \in {2, Unset} :
       LET new_node == number_of_nodes(G)
           m0 == Machine(add_node(G, new_node), edge_heap, current_time, born)
       IN \E nodes_to_connect \in NodesToConnect(new_node, num_edges, Unwindowed) :
          \E m1 \in {add_new_edges(m0, new_node, nodes_to_connect)} :
             /\ OpsCommit(m1)
             /\ last' = Did("add_new_edges", num_edges, 0, m0, m1, m1)
             /\ pushlog' = pushlog \o [n \in 1 .. Len(m1.pushed) |-> m1.pushed[n][1]]
             /\ UNCHANGED external
    /\ OpsFrame

\* remove_old_edges(num_edges_to_remove)
OpsRemoveOldEdges ==
    /\ i <= MaxOps
    /\ \E num_edges_to_remove \in {1, 2, 5} :
       LET m0 == Machine(G, edge_heap, current_time, born)
       IN \E m2 \in {IF variant = "package"
                     THEN remove_old_edges(m0, num_edges_to_remove)
                     ELSE single_remove_old_edges(m0, num_edges_to_remove)} :
             /\ OpsCommit(m2)
             /\ last' = Did("remove_old_edges", 0, num_edges_to_remove, m0, m0, m2)
             /\ UNCHANGED <<pushlog, external>>
    /\ OpsFrame

\* random_edge_removal(num_edges_to_remove), for one edge and for one more
\* than the graph has
OpsRandomEdgeRemoval ==
    /\ i <= MaxOps
    /\ \E num_edges_to_remove \in {1, number_of_edges(G) + 1} :
       LET m0 == Machine(G, edge_heap, current_time, born)
       IN \E edges \in Shuffled(G, num_edges_to_remove, Unwindowed) :
          \E m2 \in {random_edge_removal(m0, edges, num_edges_to_remove)} :
             /\ OpsCommit(m2)
             /\ last' = Did("random_edge_removal", 0, num_edges_to_remove, m0, m0, m2)
             /\ external' = (external \/ m2.removed # <<>>)
             /\ UNCHANGED pushlog
    /\ OpsFrame

NextOps == OpsAddNewEdges \/ OpsRemoveOldEdges \/ OpsRandomEdgeRemoval

SpecOps == InitOps /\ [][NextOps]_vars

(***************************************************************************)
(* ThicknessCalculator.  s holds NUMBER, tree_arcs, fronds, the value of   *)
(* numbering_counter, and entered: the vertices in the order in which      *)
(* thickness_dfs was entered for them.                                     *)
(***************************************************************************)
\* mutant of is_frond: the numbers are not compared
is_frond_unordered(s, v, u, w) == w # u

\* mutant of is_frond: no arc is classified as a frond
is_frond_never(s, v, u, w) == FALSE

\* mutant of is_frond: the parent is not excluded
is_frond_with_parent(s, v, u, w) == s.NUMBER[w] < s.NUMBER[v]

\* elif NUMBER[w] < NUMBER[v] and w != u
is_frond(s, v, u, w) == s.NUMBER[w] < s.NUMBER[v] /\ w # u

RECURSIVE thickness_dfs(_, _, _, _)
RECURSIVE thickness_dfs_for(_, _, _, _, _)

\* the for loop of thickness_dfs from the j-th neighbor of v on.  NUMBER
\* changes only in the recursive call, so the neighbors up to the next
\* unnumbered one are classified in one go: each is a frond or is passed over.
\* The call returns (s2) before the loop goes on with the next neighbor
thickness_dfs_for(v, u, adjl, s, j) ==
    LET unnumbered == {n \in j .. Len(adjl[v]) : s.NUMBER[adjl[v][n]] = 0}
        next == IF unnumbered = {} THEN Len(adjl[v]) + 1
                ELSE CHOOSE n \in unnumbered : \A m \in unnumbered : n <= m
        found == SelectSeq(SubSeq(adjl[v], j, next - 1),
                           LAMBDA w : is_frond(s, v, u, w))
        s1 == [s EXCEPT !.fronds = @ \o [n \in 1 .. Len(found) |-> <<v, found[n]>>]]
    IN IF next > Len(adjl[v]) THEN s1
       ELSE CHOOSE r \in {thickness_dfs_for(v, u, adjl, s2, next + 1) :
                    s2 \in {thickness_dfs(adjl[v][next], v, adjl,
                    [s1 EXCEPT !.tree_arcs = Append(@, <<v, adjl[v][next]>>)])}} : TRUE

\* ThicknessCalculator.thickness_dfs(v, u, adj, NUMBER, tree_arcs, fronds,
\* numbering_counter); the counter it returns is s.numbering_counter
thickness_dfs(v, u, adjl, s) ==
    thickness_dfs_for(v, u, adjl,
        [s EXCEPT !.numbering_counter = s.numbering_counter + 1,
                  !.NUMBER[v] = s.numbering_counter + 1,
                  !.entered = Append(@, v)],
        1)

\* mutant of check_root: the counter starts again for each root
check_root_restarting(s, node, adjl) ==
    IF s.NUMBER[node] = 0
    THEN thickness_dfs(node, 0 - 1, adjl, [s EXCEPT !.numbering_counter = 0])
    ELSE s

\* the body of the for loop of check_thickness
check_root(s, node, adjl) ==
    IF s.NUMBER[node] = 0 THEN thickness_dfs(node, 0 - 1, adjl, s) ELSE s

RECURSIVE check_thickness_for(_, _, _, _)
check_thickness_for(s, node, n, adjl) ==
    IF node >= n THEN s
    ELSE CHOOSE r \in {check_thickness_for(s2, node + 1, n, adjl) :
                           s2 \in {check_root(s, node, adjl)}} : TRUE

\* ThicknessCalculator.check_thickness on a graph with nodes 0..n-1 and the
\* adjacency lists adjl; it returns numbering_counter
check_thickness(n, adjl) ==
    check_thickness_for(
        [NUMBER |-> [v \in 0 .. (n - 1) |-> 0], tree_arcs |-> <<>>,
         fronds |-> <<>>, numbering_counter |-> 0, entered |-> <<>>,
         status |-> "done"],
        0, n, adjl)

\* largest number of vertices and of edges of the graphs classified
DfsN == 4
DfsEdges == 4

RECURSIVE AdjChoices(_, _, _)
\* the adjacency lists of the nodes v .. n-1: every order of the neighbors
AdjChoices(g, v, n) ==
    IF v >= n THEN {<<>>}
    ELSE {<<p>> \o rest :
            p \in Arrangements(Neighbors(g, v), degree(g, v)),
            rest \in AdjChoices(g, v + 1, n)}

\* largest complete graph classified
DfsClique == 8

\* every simple graph with at most DfsN vertices 0..n-1 and DfsEdges edges
SmallGraphs ==
    UNION {{[nodes |-> 0 .. (n - 1), edges |-> E] :
              E \in {F \in SUBSET {e \in (0 .. (n - 1)) \X (0 .. (n - 1)) : e[1] < e[2]} :
                        Cardinality(F) <= DfsEdges}} :
           n \in 0 .. DfsN}

\* two disjoint triangles
TwoTriangles ==
    [nodes |-> 0 .. 5,
     edges |-> {<<0, 1>>, <<0, 2>>, <<1, 2>>, <<3, 4>>, <<3, 5>>, <<4, 5>>}]

\* the complete graphs too large to be among the small graphs
LargeCliques == {complete_graph(n) : n \in (DfsN + 1) .. DfsClique}

\* list(G[node]) for every node: any order of the neighbors; for the large
\* complete graphs the order in which nx.complete_graph inserts them
AdjOrders(g) ==
    IF g \in LargeCliques
    THEN {[n \in 1 .. number_of_nodes(g) |-> SortedSeq(Neighbors(g, n - 1))]}
    ELSE AdjChoices(g, 0, number_of_nodes(g))

InitDfs ==
    \E g \in SmallGraphs \cup {TwoTriangles} \cup LargeCliques :
    \E lists \in AdjOrders(g) :
        /\ G = g
        /\ adj = [v \in g.nodes |-> lists[v + 1]]
        /\ dfs = [status |-> "none"]
        /\ variant = "package"
        /\ k0 = 0
        /\ removal_policy = None
        /\ edge_heap = <<>>
        /\ current_time = 0
        /\ kg_edge_heap = Absent
        /\ kg_current_time = Absent
        /\ chromatic_num_original = 0
        /\ i = 0
        /\ original = Absent
        /\ result = [form |-> "none"]
        /\ last = [op |-> "init"]
        /\ born = <<>>
        /\ pushlog = <<>>
        /\ err = FALSE
        /\ external = FALSE
        /\ DriverIdle

\* thickness = self.thickness_calc.check_thickness(self.G)
CheckThickness ==
    /\ dfs.status = "none"
    /\ dfs' = check_thickness(number_of_nodes(G), adj)
    /\ UNCHANGED <<variant, k0, removal_policy, G, edge_heap, current_time,
                   kg_edge_heap, kg_current_time, chromatic_num_original, i,
                   original, result, last, born, pushlog, err, external, adj>>
    /\ UNCHANGED driver_vars

\* the metrics of the graph and the StepRecord made of them, as the drivers
\* compute and store them after check_thickness has run
StoreGraphData ==
    /\ dfs.status = "done"
    /\ graph_data = <<>>
    /\ \E is_planar \in check_planarity(G) :
       \E chrom_num \in {chromatic_number(G)} :
       \E arb_num \in {arboricity(G)} :
           graph_data' = store_graph_data(graph_data, i, G, chrom_num, is_planar,
                                          arb_num, dfs.numbering_counter)
    /\ UNCHANGED <<variant, k0, removal_policy, G, edge_heap, current_time,
                   kg_edge_heap, kg_current_time, chromatic_num_original, i,
                   original, result, last, born, pushlog, err, external, adj, dfs>>
    /\ UNCHANGED <<pc, edge_combinations, previous_edges, saved, committed,
                   prior, num_of_edges, interrupt>>

NextDfs == CheckThickness \/ StoreGraphData

SpecDfs == InitDfs /\ [][NextDfs]_vars

(***************************************************************************)
(* The drivers: KomplettGraph.generator of src/graph and                   *)
(* KomplettGraph.create_k_plus_edges of src/CompleteGraph.py.  One action  *)
(* is one iteration of the loop; KeyboardInterrupt may be raised between   *)
(* iterations, inside add_edge, or after the StepRecord is stored.         *)
(***************************************************************************)
\* adj = {node: list(G[node]) for node in G.nodes()} for the Graph of an
\* engine, the neighbors of a node listed in ascending order
adjacency(g) == [v \in g.nodes |-> SortedSeq(Neighbors(g, v))]

\* thickness = self.thickness_calc.check_thickness(self.G)
thickness_of(g) == check_thickness(number_of_nodes(g), adjacency(g)).numbering_counter

\* str(data['is_planar'])
bool_str(b) == IF b THEN "True" ELSE "False"

\* one row of the table of save_summary
summary_row(data) ==
    <<data.step, data.nodes, data.edges, data.chromatic_number,
      data.arboricity, data.thickness, bool_str(data.is_planar)>>

\* mutant of save_summary: the last record is left out
save_summary_without_last(data, policy, steps) ==
    [rows |-> [n \in 1 .. (Len(data) - 1) |-> summary_row(data[n])],
     removal_policy |-> policy, steps |-> steps]

\* save_summary(graph_data, removal_policy, steps): the rows of the table and
\* the two values the file name is made of
save_summary(data, policy, steps) ==
    [rows |-> [n \in 1 .. Len(data) |-> summary_row(data[n])],
     removal_policy |-> policy, steps |-> steps]

\* the loop is left: self._save_summary(graph_data, removal_policy, i)
Finalize(data, steps) ==
    /\ pc' = "done"
    /\ saved' = Append(saved, save_summary(data, removal_policy, steps))
    /\ i' = steps

\* the second half of an iteration: the metrics of g, the StepRecord, the
\* stop condition, i += 1.  stop: KeyboardInterrupt is raised once the record
\* is stored
RecordStep(g, stop) ==
    \E is_planar \in check_planarity(g) :
    \E chrom_num \in {chromatic_number(g)} :
    \E arb_num \in {arboricity(g)} :
    \E thickness \in {thickness_of(g)} :
        /\ graph_data' = store_graph_data(graph_data, i, g, chrom_num, is_planar,
                                          arb_num, thickness)
        /\ IF stop \/ chrom_num # chromatic_num_original
           THEN Finalize(graph_data', i)
           ELSE /\ i' = i + 1
                /\ UNCHANGED <<pc, saved>>
        /\ interrupt' = IF stop THEN "after_store" ELSE interrupt

\* the attempt the last call made, kept when the next call is made
Attempt ==
    IF last.op \in {"add_edge", "add_edge_step"}
    THEN [op |-> last.op, add |-> last.add, remove |-> last.remove,
          success |-> result.success]
    ELSE [op |-> "none"]

CommittedNow == [graph |-> G', heap |-> edge_heap', time |-> current_time']

\* STEP_LIMIT and RANDOM_LIMIT of src/graph/komplett_graph.py (10000 and
\* 1000 there), scaled down
STEP_LIMIT == 3
RANDOM_LIMIT == 2
\* largest initial clique of a generator run
GenK == 3
\* the random draws of a generator run are made among the nodes below
\* GenWindow and among the first GenWindow edges
GenWindow == 2

\* KomplettGraph(k) and the lines of generator before the loop
InitGen ==
    \E policy \in Policies : \E k \in 2 .. GenK :
        /\ InitObject("package", policy, k)
        /\ i = 0
        /\ pc = "loop"
        /\ graph_data = <<>>
        /\ edge_combinations = (1 .. RANDOM_LIMIT) \X (1 .. RANDOM_LIMIT)
        /\ previous_edges = {}
        /\ saved = <<>>
        /\ committed = [graph |-> complete_graph(k),
                        heap |-> initial_entries(complete_graph(k)),
                        time |-> Len(initial_entries(complete_graph(k)))]
        /\ prior = [op |-> "none"]
        /\ num_of_edges = Unset
        /\ interrupt = "none"

\* mutant of pop_combination: the combination stays in the list
pop_combination_kept(combinations, c) == combinations

\* edge_combinations.pop() has returned c
pop_combination(combinations, c) == combinations \ {c}

\* while i < STEP_LIMIT and edge_combinations
LoopCondition == i < STEP_LIMIT /\ edge_combinations # {}

\* one iteration of the loop of generator.  edge_combinations is shuffled
\* once, so pop() yields any combination not popped before
GeneratorIteration(stop) ==
    /\ variant = "package"
    /\ pc = "loop"
    /\ LoopCondition
    /\ IF i > 0
       THEN \E c \in edge_combinations :
              /\ edge_combinations' = pop_combination(edge_combinations, c)
              /\ PackageAddEdgeCall(c[1], c[2], GenWindow)
              /\ prior' = Attempt
              /\ IF ~result'.success
                 THEN /\ ~stop
                      /\ i' = i + 1
                      /\ UNCHANGED <<graph_data, previous_edges, pc, saved,
                                     committed, interrupt>>
                 ELSE /\ committed' = CommittedNow
                      /\ IF G'.edges = previous_edges
                         THEN /\ ~stop
                              /\ UNCHANGED <<i, graph_data, previous_edges, pc,
                                             saved, interrupt>>
                         ELSE /\ previous_edges' = G'.edges
                              /\ RecordStep(G', stop)
       ELSE /\ RecordStep(G, stop)
            /\ UNCHANGED <<G, edge_heap, current_time, kg_edge_heap,
                           kg_current_time, original, result, last, born,
                           pushlog, err, external, edge_combinations,
                           previous_edges, committed, prior>>
    /\ UNCHANGED <<variant, k0, removal_policy, chromatic_num_original, adj,
                   dfs, num_of_edges>>

GeneratorStep == GeneratorIteration(FALSE)

\* KeyboardInterrupt raised after _store_graph_data, before i += 1
InterruptAfterStore == GeneratorIteration(TRUE)

\* the loop condition fails: the summary is saved
GeneratorExit ==
    /\ variant = "package"
    /\ pc = "loop"
    /\ ~LoopCondition
    /\ Finalize(graph_data, i)
    /\ UNCHANGED <<variant, k0, removal_policy, G, edge_heap, current_time,
                   kg_edge_heap, kg_current_time, chromatic_num_original,
                   original, result, last, born, pushlog, err, external, adj,
                   dfs, graph_data, edge_combinations, previous_edges,
                   committed, prior, num_of_edges, interrupt>>

\* KeyboardInterrupt raised between two iterations: except, then the summary
InterruptBetween ==
    /\ pc = "loop"
    /\ interrupt' = "between"
    /\ Finalize(graph_data, i)
    /\ UNCHANGED <<variant, k0, removal_policy, G, edge_heap, current_time,
                   kg_edge_heap, kg_current_time, chromatic_num_original,
                   original, result, last, born, pushlog, err, external, adj,
                   dfs, graph_data, edge_combinations, previous_edges,
                   committed, prior, num_of_edges>>

\* the states add_edge passes through once the vertex is added: after each
\* push of add_new_edges and after each removal of the removal policy
PartialStates(num_edges_to_add, num_edges_to_remove, window) ==
    LET new_node == number_of_nodes(G)
        m0 == Machine(add_node(G, new_node), edge_heap, current_time, born)
    IN UNION {
         {add_new_edges(m0, new_node, SubSeq(nodes_to_connect, 1, j)) :
              j \in 0 .. Len(nodes_to_connect)}
         \cup
         UNION {{IF removal_policy = "old"
                 THEN remove_old_edges(m1, r)
                 ELSE random_edge_removal(m1, edges, r) :
                     r \in 0 .. num_edges_to_remove,
                     edges \in IF removal_policy = "random"
                               THEN Shuffled(m1.G, num_edges_to_remove, window)
                               ELSE {<<>>}} :
                m1 \in {add_new_edges(m0, new_node, nodes_to_connect)}} :
         nodes_to_connect \in NodesToConnect(new_node, num_edges_to_add, window)}

\* KeyboardInterrupt raised inside self.add_edge(...): the call is left where
\* it is, except prints, the summary is saved
InterruptInStep ==
    /\ variant = "package"
    /\ pc = "loop"
    /\ LoopCondition
    /\ i > 0
    /\ \E c \in edge_combinations :
       \E m \in PartialStates(c[1], c[2], GenWindow) :
          /\ edge_combinations' = pop_combination(edge_combinations, c)
          /\ original' = Snapshot
          /\ G' = m.G
          /\ born' = m.born
          /\ edge_heap' = m.heap
          /\ current_time' = m.time
          /\ pushlog' = pushlog \o [n \in 1 .. Len(m.pushed) |-> m.pushed[n][1]]
          /\ last' = [op |-> "KeyboardInterrupt", add |-> c[1], remove |-> c[2]]
    /\ prior' = Attempt
    /\ interrupt' = "in_step"
    /\ Finalize(graph_data, i)
    /\ UNCHANGED <<variant, k0, removal_policy, kg_edge_heap, kg_current_time,
                   chromatic_num_original, result, err, external, adj, dfs,
                   graph_data, previous_edges, committed, num_of_edges>>

NextGen ==
    \/ GeneratorStep
    \/ GeneratorExit
    \/ InterruptBetween
    \/ InterruptInStep
    \/ InterruptAfterStore

SpecGen == InitGen /\ [][NextGen]_vars

\* the loop is sequential code: an iteration that can run does run.  This is
\* weak fairness of GeneratorStep \/ GeneratorExit with its enabling
\* condition written out: one of the two can run exactly while pc = "loop"
SpecGenFair ==
    /\ SpecGen
    /\ \/ []<>(pc # "loop")
       \/ []<><<GeneratorStep \/ GeneratorExit>>_vars

(***************************************************************************)
(* create_k_plus_edges of src/CompleteGraph.py, on K_MainK and the cliques *)
(* above it, where add_edge_step can be rejected.                          *)
(***************************************************************************)
\* num_of_edges = random.randint(1, 10), drawn once when the module is loaded
NumOfEdgesMax == 10

\* KomplettGraph(k) and the lines of create_k_plus_edges before the loop.
\* num_of_edges is the default of the parameter num_edges of add_edge_step,
\* fixed when the def statement runs.  Under the random policy only
\* num_of_edges = 1 is drawn: a larger count has too many outcomes
InitDrive ==
    \E policy \in Policies : \E k \in MainK .. (MainK + BigKSpan) :
    \E n \in {m \in 1 .. NumOfEdgesMax : policy = "old" \/ m = 1} :
        /\ InitObject("single", policy, k)
        /\ i = 0
        /\ pc = "loop"
        /\ graph_data = <<>>
        /\ edge_combinations = {}
        /\ previous_edges = {}
        /\ saved = <<>>
        /\ committed = [graph |-> complete_graph(k),
                        heap |-> heapify(initial_entries(complete_graph(k))),
                        time |-> Len(initial_entries(complete_graph(k)))]
        /\ prior = [op |-> "none"]
        /\ num_of_edges = n
        /\ interrupt = "none"

\* number of calls of add_edge_step in one run of create_k_plus_edges
MaxAttempts == 2

\* the calls of add_edge_step made so far: each pushes num_of_edges entries
attempts_made == Len(pushlog) \div num_of_edges

\* one iteration of the while True loop of create_k_plus_edges.  The call
\* add_edge_step(i, chromatic_num_original, removal_policy) leaves num_edges
\* to its default.  A rejected call returns (False, error_message): continue,
\* with i as it was.  A committed call returns the bare True, and
\* "success, error_message = True" raises TypeError, which the
\* except KeyboardInterrupt clause does not catch: the method is left
\* without _save_summary
CreateIteration ==
    /\ variant = "single"
    /\ pc = "loop"
    /\ IF i > 0
       THEN /\ attempts_made < MaxAttempts
            /\ SingleAddEdgeStepCall(num_of_edges, BigWindow)
            /\ prior' = Attempt
            /\ IF result'.form = "bool"
               THEN /\ pc' = "crashed"
                    /\ committed' = CommittedNow
               ELSE UNCHANGED <<pc, committed>>
            /\ UNCHANGED <<i, graph_data, saved, interrupt>>
       ELSE /\ RecordStep(G, FALSE)
            /\ UNCHANGED <<G, edge_heap, current_time, original, result, last,
                           born, pushlog, err, external, committed, prior>>
    /\ UNCHANGED <<variant, k0, removal_policy, kg_edge_heap, kg_current_time,
                   chromatic_num_original, adj, dfs, edge_combinations,
                   previous_edges, num_of_edges>>

NextDrive == CreateIteration \/ InterruptBetween

SpecDrive == InitDrive /\ [][NextDrive]_vars

(***************************************************************************)
(* The historical variant src/k10.py: the removal methods keep an edge     *)
(* removed only while the chromatic number is 10.  The methods are called  *)
(* in any order on K_(10 - K10Span) .. K_(10 + K10Span).                   *)
(***************************************************************************)
\* the chromatic number src/k10.py maintains
K10Chromatic == 10
\* the initial cliques are the K_k with k within K10Span of K10Chromatic
K10Span == 1
\* number of calls in one run
K10Ops == 3

\* mutant of chromatic_changed: no removal is seen to change the number
chromatic_changed_never(g) == FALSE

\* if self.chromatic_number() != 10
chromatic_changed(g) == chromatic_number(g) # K10Chromatic

\* one iteration of the while loop of remove_old_edges of src/k10.py; nothing
\* once the loop has ended (heap empty, or break)
k10_remove_old_edges_step(st) ==
    IF st.m.heap = <<>> \/ st.broke THEN st
    ELSE LET p == heappop(st.m.heap)
             oldest_time == p.item[1]
             u == p.item[2][1]
             v == p.item[2][2]
             m1 == [st.m EXCEPT !.heap = p.heap, !.popped = Append(@, p.item)]
             g1 == graph_remove_edge(m1.G, u, v)
         IN IF ~has_edge(m1.G, u, v) THEN [st EXCEPT !.m = m1]
            ELSE IF chromatic_changed(g1)
            THEN [m |-> [m1 EXCEPT !.G = graph_add_edge(g1, u, v),
                                   !.heap = heappush(p.heap,
                                                <<oldest_time, <<u, v>>>>)],
                  broke |-> TRUE]
            ELSE [st EXCEPT !.m = [m1 EXCEPT !.G = g1,
                                             !.born = Bury(m1.born, Norm(u, v)),
                                             !.removed = Append(@, Norm(u, v))]]

\* remove_old_edges of src/k10.py
k10_remove_old_edges(m) ==
    Repeat(k10_remove_old_edges_step,
           [m |-> [m EXCEPT !.removed = <<>>, !.popped = <<>>], broke |-> FALSE],
           Len(m.heap))

\* the body of the for loop of random_edge_removal of src/k10.py, for the
\* j-th edge of the shuffled list
k10_random_edge_removal_step(st) ==
    IF st.j > Len(st.edges) THEN st
    ELSE LET u == st.edges[st.j][1]
             v == st.edges[st.j][2]
             g1 == graph_remove_edge(st.m.G, u, v)
         IN IF chromatic_changed(g1)
            THEN [st EXCEPT !.j = @ + 1]
            ELSE [st EXCEPT !.j = @ + 1,
                            !.m = [st.m EXCEPT !.G = g1,
                                               !.born = Bury(st.m.born, Norm(u, v)),
                                               !.removed = Append(@, Norm(u, v))]]

\* random_edge_removal of src/k10.py once the shuffled list is fixed
k10_random_edge_removal(m, edges) ==
    Repeat(k10_random_edge_removal_step,
           [m |-> [m EXCEPT !.removed = <<>>, !.popped = <<>>],
            edges |-> edges, j |-> 1],
           Len(edges)).m

\* the orders of the shuffled list that are drawn: list(G.edges()) as it is,
\* and reversed
K10Shuffles(g) ==
    LET all == edges_list(g)
    IN {all, [n \in 1 .. Len(all) |-> all[Len(all) + 1 - n]]}

\* what a call of a removal method of src/k10.py did
K10Did(op, m0, m2, broke) ==
    [op |-> op, before |-> m0.G, heap0 |-> m0.heap, time0 |-> m0.time,
     removed |-> m2.removed, popped |-> m2.popped, broke |-> broke]

InitK10 ==
    \E k \in (K10Chromatic - K10Span) .. (K10Chromatic + K10Span) :
        InitEngine("k10", None, k)

\* new_node = self.G.number_of_nodes(); self.G.add_node(new_node);
\* self.add_new_edges(new_node): the new vertex is joined to every node
K10AddNewEdges ==
    /\ variant = "k10"
    /\ i <= K10Ops
    /\ LET new_node == number_of_nodes(G)
           m0 == Machine(add_node(G, new_node), edge_heap, current_time, born)
       IN \E m1 \in {add_new_edges(m0, new_node, [n \in 1 .. new_node |-> n - 1])} :
             /\ OpsCommit(m1)
             /\ last' = [op |-> "k10_add_new_edges", before |-> G,
                         pushed |-> m1.pushed]
             /\ pushlog' = pushlog \o [n \in 1 .. Len(m1.pushed) |-> m1.pushed[n][1]]
             /\ UNCHANGED external
    /\ OpsFrame

K10RemoveOldEdges ==
    /\ variant = "k10"
    /\ i <= K10Ops
    /\ LET m0 == Machine(G, edge_heap, current_time, born)
       IN \E st \in {k10_remove_old_edges(m0)} :
             /\ OpsCommit(st.m)
             /\ last' = K10Did("k10_remove_old_edges", m0, st.m, st.broke)
             /\ UNCHANGED <<pushlog, external>>
    /\ OpsFrame

K10RandomEdgeRemoval ==
    /\ variant = "k10"
    /\ i <= K10Ops
    /\ LET m0 == Machine(G, edge_heap, current_time, born)
       IN \E edges \in K10Shuffles(G) :
          \E m2 \in {k10_random_edge_removal(m0, edges)} :
             /\ OpsCommit(m2)
             /\ last' = K10Did("k10_random_edge_removal", m0, m2, FALSE)
             /\ external' = (external \/ m2.removed # <<>>)
             /\ UNCHANGED pushlog
    /\ OpsFrame

NextK10 == K10AddNewEdges \/ K10RemoveOldEdges \/ K10RandomEdgeRemoval

SpecK10 == InitK10 /\ [][NextK10]_vars

(***************************************************************************)
(* Properties.                                                             *)
(***************************************************************************)
Rejected == result.form # "none" /\ ~result.success
Committed == result.form # "none" /\ result.success

\* the elements of the sequence s before position j
Before(s, j) == {s[n] : n \in 1 .. (j - 1)}

\* C1: in the graph package engine, after a rejected step the Graph, the
\* contents of the store edge_ops.edge_heap and the counter
\* edge_ops.current_time equal their values immediately before the step.
C1_RevertExactPackage ==
    (variant = "package" /\ Rejected) =>
        /\ G = original.graph
        /\ edge_heap = original.heap
        /\ current_time = original.time

\* C2: in the single-file engine, after a step rejected because the
\* arboricity estimate exceeds 9, the Graph (vertices and edges), the edge
\* heap and current_time equal their values immediately before the step.
C2_RevertExactSingle ==
    (variant = "single" /\ Rejected) =>
        /\ G.nodes = original.graph.nodes
        /\ G.edges = original.graph.edges
        /\ edge_heap = original.heap
        /\ current_time = original.time

\* a step of the single-file engine under the random policy was rejected
\* after it had added a vertex, pushed an entry and removed an edge
C2_Witness ==
    /\ variant = "single"
    /\ removal_policy = "random"
    /\ Rejected
    /\ result.message.kind = "arboricity"
    /\ last.pushed # <<>>
    /\ last.removed # <<>>
    /\ last.after # original.graph

\* C3: in the graph package engine with the "old" policy, every edge that
\* remove_old_edges removes is, when it is removed, an edge with the smallest
\* insertion timestamp among the edges then present in the Graph.
C3_OldestRemovedFirst ==
    (variant = "package" /\ removal_policy = "old" /\ last.op = "add_edge") =>
        \A j \in 1 .. Len(last.removed) :
            \A f \in last.mid.edges \ Before(last.removed, j) :
                last.midborn[last.removed[j]] <= last.midborn[f]

RECURSIVE OldestFirst(_, _)
\* the edges of S from the oldest on: by insertion timestamp b, edges of one
\* timestamp in the order of their tuples
OldestFirst(S, b) ==
    IF S = {} THEN <<>>
    ELSE LET m == CHOOSE e \in S : \A f \in S :
                      f = e \/ LessThan(<<b[e], e>>, <<b[f], f>>)
         IN <<m>> \o OldestFirst(S \ {m}, b)

\* C4: with no removal made outside the store, remove_old_edges(r) of
\* EdgeOperations removes exactly the r oldest live edges, oldest first, and
\* the next pop returns the (r+1)-th oldest.
C4_FifoRemoval ==
    (variant = "package" /\ last.op = "remove_old_edges" /\ ~external) =>
        LET queue == OldestFirst(last.mid.edges, last.midborn)
            r == Min(last.remove, Len(queue))
        IN /\ last.removed = SubSeq(queue, 1, r)
           /\ G.edges = last.mid.edges \ Range(last.removed)
           /\ r < Len(queue) =>
                 /\ edge_heap # <<>>
                 /\ edge_heap[1] = <<last.midborn[queue[r + 1]], queue[r + 1]>>

\* a removal of two edges, one of the initial clique and one pushed later in
\* an order that differs from the order of the tuples, that leaves an edge
C4_Witness ==
    /\ variant = "package"
    /\ last.op = "remove_old_edges"
    /\ ~external
    /\ Len(last.removed) = 2
    /\ G.edges # {}
    /\ \E e \in G.edges : born[e] > 0 /\ EdgeLess(e, last.removed[2])
    /\ last.midborn[last.removed[2]] > 0

\* C5: each push of add_new_edges stores the entry with timestamp
\* current_time and then adds one to current_time, so the timestamps of the
\* pushes are strictly increasing.
C5_TimestampsIncrease ==
    /\ \A a, b \in 1 .. Len(pushlog) : a < b => pushlog[a] < pushlog[b]
    /\ last.op = "add_new_edges" =>
          /\ \A j \in 1 .. Len(last.pushed) :
                 /\ last.pushed[j][1] = last.time0 + j - 1
                 /\ \E n \in 1 .. Len(edge_heap) : edge_heap[n] = last.pushed[j]
          /\ current_time = last.time0 + Len(last.pushed)

\* two calls of add_new_edges have pushed at least three entries
C5_Witness ==
    /\ last.op = "add_new_edges"
    /\ Len(last.pushed) >= 2
    /\ Len(pushlog) > Len(last.pushed)

\* C6: from K_k, once a new vertex is attached to all k vertices and nothing
\* is removed, the Graph has k+1 vertices and k(k-1)/2 + k edges and the store
\* holds one entry per edge, with the distinct timestamps 0 .. edges-1.
C6_ScenarioA ==
    (i = 2 /\ last.op = "add_new_edges" /\ last.add = Unset) =>
        /\ number_of_nodes(G) = k0 + 1
        /\ number_of_edges(G) = (k0 * (k0 - 1)) \div 2 + k0
        /\ Len(edge_heap) = number_of_edges(G)
        /\ {edge_heap[n][2] : n \in 1 .. Len(edge_heap)} = G.edges
        /\ {edge_heap[n][1] : n \in 1 .. Len(edge_heap)}
               = 0 .. (number_of_edges(G) - 1)

\* C7: after random_edge_removal has removed edges behind the store's back,
\* remove_old_edges of EdgeOperations removes only edges that are in the
\* Graph when it removes them, drops the stale entries it pops, and raises
\* no error.
C7_StaleTolerated ==
    (variant = "package" /\ last.op = "remove_old_edges") =>
        /\ ~err
        /\ \A j \in 1 .. Len(last.removed) :
               last.removed[j] \in last.mid.edges \ Before(last.removed, j)
        /\ G.edges = last.mid.edges \ Range(last.removed)
        /\ Len(edge_heap) = Len(last.midheap) - Len(last.popped)
        /\ \A n \in 1 .. Len(last.popped) :
               /\ \A h \in 1 .. Len(edge_heap) : edge_heap[h] # last.popped[n]
               /\ last.popped[n][2] \notin G.edges

\* remove_old_edges met a stale entry left by random_edge_removal, dropped it
\* and went on to remove a live edge
C7_Witness ==
    /\ variant = "package"
    /\ last.op = "remove_old_edges"
    /\ external
    /\ Len(last.removed) >= 1
    /\ \E n \in 1 .. Len(last.popped) :
           /\ last.popped[n][2] \notin last.mid.edges
           /\ \E j \in 1 .. Len(last.removed) :
                  LessThan(last.popped[n], <<last.midborn[last.removed[j]],
                                             last.removed[j]>>)

\* C8: a step whose arboricity estimate exceeds 9 is rejected with a message
\* that names the step index; so from an initial clique whose estimate is at
\* most 9 the estimate of the Graph is at most 9 after every step.
C8_CeilingHolds ==
    /\ (last.op \in {"add_edge", "add_edge_step"} /\ arboricity(last.after) > 9) =>
          /\ Rejected
          /\ result.message.step = i - 1
    /\ arboricity(complete_graph(k0)) <= 9 => arboricity(G) <= 9

\* from K_19, whose estimate is 9, a step reached the estimate 10 and was
\* rejected for it
C8_Witness ==
    /\ arboricity(complete_graph(k0)) <= 9
    /\ Rejected
    /\ result.message.kind = "arboricity"
    /\ arboricity(last.after) = 10
    /\ arboricity(G) = 9

\* the number of positions of the sequence s that hold x
Count(s, x) == Cardinality({n \in 1 .. Len(s) : s[n] = x})

\* the arcs of a list as undirected edges
Undirected(s) == [n \in 1 .. Len(s) |-> Norm(s[n][1], s[n][2])]

\* C9: a full check_thickness run on a simple graph with vertices 0..n-1
\* gives each vertex one number in 1..n, all distinct, enters each vertex
\* once, and appends every undirected edge exactly once to exactly one of
\* tree_arcs and fronds.
C9_NumberingComplete ==
    dfs.status = "done" =>
        /\ \A v \in G.nodes : dfs.NUMBER[v] \in 1 .. number_of_nodes(G)
        /\ \A v, w \in G.nodes : v # w => dfs.NUMBER[v] # dfs.NUMBER[w]
        /\ \A v \in G.nodes : Count(dfs.entered, v) = 1
        /\ Len(dfs.entered) = number_of_nodes(G)
        /\ \A e \in G.edges :
               Count(Undirected(dfs.tree_arcs), e)
                   + Count(Undirected(dfs.fronds), e) = 1
        /\ Range(Undirected(dfs.tree_arcs)) \cup Range(Undirected(dfs.fronds))
               = G.edges

\* a run on a connected graph with a cycle: tree arcs and a frond
C9_Witness ==
    /\ dfs.status = "done"
    /\ number_of_nodes(G) = DfsN
    /\ Len(dfs.tree_arcs) = DfsN - 1
    /\ dfs.fronds # <<>>

\* C10: check_thickness returns the final value of the numbering counter,
\* which runs on from one connected component to the next and so equals the
\* number of vertices of the graph, whatever its edges.
C10_CounterIsVertexCount ==
    dfs.status = "done" => dfs.numbering_counter = number_of_nodes(G)

\* a run on a graph with two components that both have an edge
C10_Witness ==
    /\ dfs.status = "done"
    /\ Cardinality(connected_components(G)) = 2
    /\ \A c \in connected_components(G) : Cardinality(c) = 2

\* the entries of the arc list s with both ends in the vertex set c
ArcsWithin(s, c) == {n \in 1 .. Len(s) : s[n][1] \in c /\ s[n][2] \in c}

\* C11: for every connected component with v vertices and e edges, the tree
\* arcs of check_thickness inside the component number v-1 and form a spanning
\* tree of it, and the fronds inside it number e-(v-1).
C11_SpanningTreePerComponent ==
    dfs.status = "done" =>
        \A c \in connected_components(G) :
            LET T == {Norm(dfs.tree_arcs[n][1], dfs.tree_arcs[n][2]) :
                          n \in ArcsWithin(dfs.tree_arcs, c)}
                e == Cardinality({f \in G.edges : f[1] \in c /\ f[2] \in c})
            IN /\ Cardinality(ArcsWithin(dfs.tree_arcs, c)) = Cardinality(c) - 1
               /\ Cardinality(T) = Cardinality(c) - 1
               /\ T \subseteq G.edges
               /\ connected_components([nodes |-> c, edges |-> T]) = {c}
               /\ Cardinality(ArcsWithin(dfs.fronds, c)) = e - (Cardinality(c) - 1)

\* two disjoint triangles: counter 6, 2 tree arcs and 1 frond per triangle
C11_Witness ==
    /\ dfs.status = "done"
    /\ G = TwoTriangles
    /\ dfs.numbering_counter = 6
    /\ \A c \in connected_components(G) :
           /\ Cardinality(ArcsWithin(dfs.tree_arcs, c)) = 2
           /\ Cardinality(ArcsWithin(dfs.fronds, c)) = 1

\* the number of edges of G inside the vertex set c
EdgesWithin(c) == Cardinality({f \in G.edges : f[1] \in c /\ f[2] \in c})

LiveEntries(s, g) == {n \in 1 .. Len(s) : s[n][2] \in g.edges}

\* C13: in src/CompleteGraph.py, remove_old_edges(k) called when the store
\* holds at least k entries whose edges are live removes exactly k edges from
\* the Graph, those with the smallest timestamps, and leaves the other entries
\* in the store.
C13_SingleRemovesOldest ==
    (variant = "single" /\ last.op = "remove_old_edges"
       /\ Cardinality(LiveEntries(last.midheap, last.mid)) >= last.remove) =>
        /\ Len(last.removed) = last.remove
        /\ G.edges = last.mid.edges \ Range(last.removed)
        /\ \A e \in Range(last.removed) : \A f \in G.edges :
               last.midborn[e] <= last.midborn[f]
        /\ \A n \in 1 .. Len(last.midheap) :
               last.midheap[n][2] \notin Range(last.removed) =>
                   \E h \in 1 .. Len(edge_heap) : edge_heap[h] = last.midheap[n]

\* C14: in the graph package engine, after any sequence of steps, a removal
\* with removeCount r on a Graph with m live edges removes exactly min(r, m)
\* edges and raises no error.
C14_RemovesMinOfCountAndLive ==
    (variant = "package" /\ last.op = "add_edge") =>
        /\ ~err
        /\ Len(last.removed) = Min(last.remove, Cardinality(last.mid.edges))

DriftBelowCeiling ==
    /\ last.op \in {"add_edge", "add_edge_step"}
    /\ chromatic_number(last.after) # chromatic_num_original
    /\ arboricity(last.after) <= 9

\* C16 as stated: the graph package engine enforces only the arboricity
\* ceiling, so a step of add_edge whose chromatic number differs from the
\* initial value but whose arboricity estimate is at most 9 is committed.
C16_PackageCommitsDrift ==
    (variant = "package" /\ DriftBelowCeiling) => Committed

\* C16 amended: the graph package engine enforces both checks, a step of
\* add_edge whose chromatic number differs from the initial value is rejected
\* with the chromatic message and the Graph restored, whatever its arboricity
\* estimate; add_edge_step of src/CompleteGraph.py enforces the arboricity
\* ceiling alone and commits such a step when its estimate is at most 9.
C16_DriftRejectedInPackageOnly ==
    /\ (variant = "package" /\ last.op = "add_edge"
          /\ chromatic_number(last.after) # chromatic_num_original) =>
            /\ Rejected
            /\ result.message.kind = "chromatic"
            /\ G = original.graph
    /\ (variant = "package" /\ Rejected) =>
            \/ chromatic_number(last.after) # chromatic_num_original
            \/ arboricity(last.after) > 9
    /\ (variant = "single" /\ DriftBelowCeiling) =>
            /\ Committed
            /\ G = last.after

\* a package step rejected for its chromatic number alone
C16_Witness ==
    /\ variant = "package"
    /\ DriftBelowCeiling
    /\ Rejected
    /\ last.after # original.graph

\* C17: when the operator interrupt arrives inside a step, the step's
\* mutation is abandoned: at finalization the Graph, the store and the
\* timestamp counter equal their values after the last committed step.
C17_InterruptAbandonsStep ==
    (pc = "done" /\ interrupt # "none") =>
        /\ G = committed.graph
        /\ edge_heap = committed.heap
        /\ current_time = committed.time

\* C18: when the operator interrupt arrives at any point of the generator
\* loop, the loop ends and save_summary is called exactly once, with every
\* StepRecord appended before the interrupt, in append order, none lost or
\* altered.
C18_InterruptKeepsRecords ==
    /\ [](pc = "loop" => saved = <<>>)
    /\ []((pc = "done" /\ interrupt # "none") =>
            /\ Len(saved) = 1
            /\ saved[1].steps = i
            /\ Len(saved[1].rows) = Len(graph_data)
            /\ \A n \in 1 .. Len(graph_data) :
                   saved[1].rows[n] =
                       <<graph_data[n].step, graph_data[n].nodes,
                         graph_data[n].edges, graph_data[n].chromatic_number,
                         graph_data[n].arboricity, graph_data[n].thickness,
                         IF graph_data[n].is_planar THEN "True" ELSE "False">>)
    /\ [][/\ Len(graph_data') \in {Len(graph_data), Len(graph_data) + 1}
          /\ SubSeq(graph_data', 1, Len(graph_data)) = graph_data
          /\ pc = "done" => (pc' = "done" /\ saved' = saved
                                /\ graph_data' = graph_data)]_vars

\* the interrupt arrived right after the second StepRecord was stored, and
\* the summary holds both
C18_Witness ==
    /\ pc = "done"
    /\ interrupt = "after_store"
    /\ Len(graph_data) = 2
    /\ Len(saved) = 1
    /\ Len(saved[1].rows) = 2

\* C20: the loop of KomplettGraph.generator always terminates: every
\* iteration after the first consumes one untried (add, remove) combination
\* or ends the loop, the loop stops when the combinations are exhausted or
\* the step budget is reached, and the summary is then saved.
C20_GeneratorTerminates ==
    /\ <>(pc = "done")
    /\ [][(pc = "loop" /\ i > 0 /\ pc' = "loop") =>
             Cardinality(edge_combinations')
                 = Cardinality(edge_combinations) - 1]_vars
    /\ []((pc = "done" /\ interrupt = "none") =>
             /\ Len(saved) = 1
             /\ \/ i >= STEP_LIMIT
                \/ edge_combinations = {}
                \/ graph_data[Len(graph_data)].chromatic_number
                       # chromatic_num_original)

\* the loop ended at the step budget, one combination consumed by each
\* iteration after the first, and the summary was saved
C20_Witness ==
    /\ pc = "done"
    /\ interrupt = "none"
    /\ i = STEP_LIMIT
    /\ Cardinality(edge_combinations)
           = RANDOM_LIMIT * RANDOM_LIMIT - (STEP_LIMIT - 1)
    /\ Len(saved) = 1

\* C19: in create_k_plus_edges of src/CompleteGraph.py, after a rejected
\* step the next attempt uses add/remove counts that differ from those of
\* the rejected attempt.
C19_RetryDiffers ==
    (/\ variant = "single"
     /\ last.op = "add_edge_step"
     /\ prior.op = "add_edge_step"
     /\ ~prior.success) =>
        (last.add # prior.add \/ last.remove # prior.remove)

\* C21: after any sequence of steps (committed or rejected, either policy)
\* the vertices of the Graph are exactly 0..n-1, the Graph has no self-loop
\* and no edge twice, and the vertex a step adds is numbered with the vertex
\* count before the step.
C21_VerticesContiguous ==
    /\ G.nodes = 0 .. (Cardinality(G.nodes) - 1)
    /\ \A e \in G.edges : e[1] < e[2] /\ e[1] \in G.nodes /\ e[2] \in G.nodes
    /\ last.op \in {"add_edge", "add_edge_step"} =>
          /\ last.mid.nodes = original.graph.nodes
                                \cup {Cardinality(original.graph.nodes)}
          /\ \A n \in 1 .. Len(last.pushed) :
                 /\ last.pushed[n][2][2] = Cardinality(original.graph.nodes)
                 /\ last.pushed[n][2][1] < last.pushed[n][2][2]

\* a committed step after a rejected one: the vertex number of the rejected
\* step is used again
C21_Witness ==
    /\ last.op \in {"add_edge", "add_edge_step"}
    /\ Committed
    /\ i = 3
    /\ Cardinality(G.nodes) = k0 + 1

\* the number of vertices add_new_edges is to attach a new vertex to, given
\* n existing vertices
AttachCount(add, n) == IF add = Unset \/ add >= n THEN n ELSE add

\* C22: add_new_edges for a new vertex with n existing vertices attaches it
\* to all n when the add count is unset or at least n, and otherwise to
\* exactly that many pairwise distinct existing vertices; it pushes one store
\* entry per attached edge, so the store grows by, and current_time advances
\* by, exactly min(add count, n).
C22_AddNewEdgesCount ==
    [][(last'.op = "add_new_edges" /\ i' = i + 1) =>
          LET n == Cardinality(G.nodes)
              c == AttachCount(last'.add, n)
              attached == {e \in G'.edges : e[2] = n}
              entries == [j \in 1 .. c |-> edge_heap'[Len(edge_heap) + j]]
          IN /\ G'.nodes = G.nodes \cup {n}
             /\ G.edges \subseteq G'.edges
             /\ G'.edges \ G.edges = attached
             /\ Cardinality(attached) = c
             /\ \A e \in attached : e[1] \in G.nodes
             /\ c = n => attached = {<<u, n>> : u \in G.nodes}
             /\ Len(edge_heap') = Len(edge_heap) + c
             /\ current_time' = current_time + c
             /\ variant = "package" =>
                   /\ SubSeq(edge_heap', 1, Len(edge_heap)) = edge_heap
                   /\ {Norm(entries[j][2][1], entries[j][2][2]) : j \in 1 .. c}
                         = attached
                   /\ \A j \in 1 .. c : entries[j][1] = current_time + j - 1
    ]_vars

\* a sample of two of at least three existing vertices has been attached
C22_Witness ==
    /\ last.op = "add_new_edges"
    /\ last.add = 2
    /\ Len(last.pushed) = 2
    /\ Cardinality(G.nodes) > 3
    /\ last.pushed[1][2][1] > last.pushed[2][2][1]

\* C23: in create_k_plus_edges of src/CompleteGraph.py every step i > 0 that
\* add_edge_step commits is followed, with no error raised, by exactly one
\* StepRecord with step index i; add_edge_step hands the driver its outcome
\* in the same form on commit and on rejection.
C23_CommitIsRecorded ==
    (variant = "single" /\ pc # "idle" /\ last.op = "add_edge_step") =>
        /\ result.form = "tuple"
        /\ Committed =>
              /\ pc # "crashed"
              /\ Cardinality({n \in 1 .. Len(graph_data) :
                                 graph_data[n].nodes = Cardinality(G.nodes)}) = 1

\* C24: in KomplettGraph.generator the StepRecords have strictly increasing
\* step indices and two consecutive StepRecords differ in vertex count by
\* exactly 1: rejected attempts and skipped duplicates leave no unrecorded
\* vertex in the Graph.
C24_OneVertexPerRecord ==
    variant = "package" =>
        \A n \in 1 .. (Len(graph_data) - 1) :
            /\ graph_data[n + 1].step > graph_data[n].step
            /\ graph_data[n + 1].nodes = graph_data[n].nodes + 1

RECURSIVE TreeAncestors(_, _)
\* the proper ancestors of the vertex x in the forest of the tree arcs
TreeAncestors(arcs, x) ==
    LET P == {a[1] : a \in {b \in Range(arcs) : b[2] = x}}
    IN P \cup UNION {TreeAncestors(arcs, p) : p \in P}

\* C25: every frond (v, w) recorded by thickness_dfs joins v to a proper
\* ancestor w of v in the DFS tree that is not the parent of v, w numbered
\* before v; no frond joins vertices of different subtrees and no tree arc is
\* also recorded as a frond.
C25_FrondsToAncestors ==
    dfs.status = "done" =>
        \A n \in 1 .. Len(dfs.fronds) :
            LET v == dfs.fronds[n][1]
                w == dfs.fronds[n][2]
            IN /\ dfs.NUMBER[w] < dfs.NUMBER[v]
               /\ w \in TreeAncestors(dfs.tree_arcs, v)
               /\ <<w, v>> \notin Range(dfs.tree_arcs)
               /\ Norm(v, w) \notin Range(Undirected(dfs.tree_arcs))

\* the run on the largest clique: every edge off the path of tree arcs is a
\* frond to an ancestor two or more levels up
C25_Witness ==
    /\ dfs.status = "done"
    /\ number_of_nodes(G) = DfsClique
    /\ Len(dfs.tree_arcs) = DfsClique - 1
    /\ 2 * Len(dfs.fronds) = (DfsClique - 1) * (DfsClique - 2)

\* the Graph of a remove_old_edges call of src/k10.py after its first j
\* removals
AfterRemovals(j) ==
    [last.before EXCEPT !.edges = @ \ {last.removed[n] : n \in 1 .. j}]

\* C26: in src/k10.py remove_old_edges maintains a chromatic number of 10:
\* every removal it leaves in effect produced chromatic number 10; a removal
\* that produces another value is undone, the edge back in the Graph and its
\* entry back in the store with its original timestamp, and no further edge
\* is removed in that call; so a chromatic number of 10 on entry is 10 on
\* return.
C26_RemovalKeepsTen ==
    last.op = "k10_remove_old_edges" =>
        /\ G = AfterRemovals(Len(last.removed))
        /\ \A j \in 1 .. Len(last.removed) :
               chromatic_number(AfterRemovals(j)) = 10
        /\ IF last.broke
           THEN LET item == last.popped[Len(last.popped)]
                    e == Norm(item[2][1], item[2][2])
                IN /\ e \in G.edges
                   /\ e \notin Range(last.removed)
                   /\ chromatic_number([G EXCEPT !.edges = @ \ {e}]) # 10
                   /\ item \in Range(edge_heap)
                   /\ item \in Range(last.heap0)
                   /\ Len(edge_heap) = Len(last.heap0) - Len(last.popped) + 1
           ELSE edge_heap = <<>>
        /\ chromatic_number(last.before) = 10 => chromatic_number(G) = 10

\* a call that left removals in effect, then undid one and stopped
C26_Witness ==
    /\ last.op = "k10_remove_old_edges"
    /\ last.removed # <<>>
    /\ last.broke
    /\ chromatic_number(G) = 10

\* the undirected edges the entries of the store name, in store order
StoreEdges == Undirected([n \in 1 .. Len(edge_heap) |-> edge_heap[n][2]])

\* C27: in the graph package engine, after any sequence of add_edge steps,
\* committed or rejected, under either policy, every edge present in the
\* Graph has at least one entry in the store.
C27_LiveEdgesStored ==
    variant = "package" => \A e \in G.edges : e \in Range(StoreEdges)

\* the store holds at most one entry for every undirected edge
OneEntryPerEdge ==
    \A n1, n2 \in 1 .. Len(edge_heap) :
        StoreEdges[n1] = StoreEdges[n2] => n1 = n2

\* no edge that has an entry in the store and is absent from the Graph is in
\* the Graph after the step
NoRevival ==
    \A e \in Range(StoreEdges) : e \notin G.edges => e \notin G'.edges

\* C28: in the graph package engine, after any sequence of add_edge steps,
\* committed or rejected, the store never holds two entries for the same
\* undirected edge, and an entry whose edge is absent from the Graph never
\* becomes live again.
C28_EntriesUniqueAndFinal ==
    /\ [](variant = "package" => OneEntryPerEdge)
    /\ [][variant = "package" => NoRevival]_vars

\* C29: in both engines, after any sequence of steps, committed or rejected,
\* every entry in the store has a timestamp strictly smaller than the
\* counter: the counter is at least the largest timestamp plus one.
C29_TimestampsBelowCounter ==
    \A n \in 1 .. Len(edge_heap) : edge_heap[n][1] < current_time

\* a rejected step of the single-file engine that had pushed entries: the
\* counter is back at its value before the step and the store is not empty
C29_Witness ==
    /\ variant = "single"
    /\ Rejected
    /\ last.pushed # <<>>
    /\ current_time = last.time0
    /\ edge_heap # <<>>

====
